---------------------------- MODULE Spec2Model ----------------------------
(***************************************************************************)
(* Model of xcbuild's Ninja build-graph emitter                            *)
(* (Sources/pbxbuild/Action/NinjaExecutor.cpp) and of its link phase       *)
(* resolver (Sources/pbxbuild/Phase/FrameworksResolver.cpp).               *)
(*                                                                         *)
(* Strings of the program are TLA+ strings; TLC treats a string as the     *)
(* sequence of its characters, so SubSeq(s, i, i) is the character at i.   *)
(***************************************************************************)
EXTENDS Integers, Sequences, FiniteSets, TLC

(***************************************************************************)
(* Bounds of the model.                                                    *)
(***************************************************************************)
\* longest invocation list a target's phases produce
MaxInvocations == 2
\* longest argument handed to ShellEscape
MaxLen == 2
\* most arguments of a command line
MaxArgs == 2
\* most architectures of a target
MaxArchs == 2
\* most variants of a target
MaxVariants == 2

(***************************************************************************)
(* Generic helpers.                                                        *)
(***************************************************************************)
Range(s) == {s[k] : k \in 1..Len(s)}

\* sequences without repetition over S, of length at most n
DistinctSeqs(S, n) ==
    {s \in UNION {[1..k -> S] : k \in 0..n} :
        \A a, b \in 1..Len(s) : a # b => s[a] # s[b]}

RECURSIVE Flatten(_)
Flatten(ss) == IF ss = <<>> THEN <<>> ELSE Head(ss) \o Flatten(Tail(ss))

\* character of a string at a position, as a one-character string
CharAt(s, k) == SubSeq(s, k, k)

(***************************************************************************)
(* libutil: FSUtil.                                                        *)
(***************************************************************************)
RECURSIVE LastSlash(_, _)
LastSlash(path, k) ==
    IF k = 0 THEN 0
    ELSE IF CharAt(path, k) = "/" THEN k
    ELSE LastSlash(path, k - 1)

GetDirectoryName(path) ==
    LET k == LastSlash(path, Len(path))
    IN  IF k = 0 THEN "" ELSE IF k = 1 THEN "/" ELSE SubSeq(path, 1, k - 1)

IsAbsolutePath(path) == Len(path) > 0 /\ CharAt(path, 1) = "/"

\* the executable files present on the machine
ExecutableFiles == {"/usr/bin/clang", "/usr/bin/ld", "/usr/bin/strip", "/usr/bin/codesign"}

RECURSIVE FindExecutable(_, _)
FindExecutable(name, searchPaths) ==
    IF searchPaths = <<>> THEN ""
    ELSE IF (Head(searchPaths) \o "/" \o name) \in ExecutableFiles
         THEN Head(searchPaths) \o "/" \o name
         ELSE FindExecutable(name, Tail(searchPaths))

\* targetEnvironment.sdk()->executablePaths()
SdkExecutablePaths == <<"/sdk/bin", "/usr/bin">>

(***************************************************************************)
(* NinjaExecutor.cpp: names.                                               *)
(***************************************************************************)
TargetNinjaBegin(target) == "begin-target-" \o target

TargetNinjaFinish(target) == "finish-target-" \o target

\* environment.resolve("OBJROOT")
ObjRoot == "/obj"

\* environment.resolve("TARGET_TEMP_DIR") of a target
TargetTempDir(target) == ObjRoot \o "/" \o target \o ".build"

TargetNinjaPath(target) == TargetTempDir(target) \o "/" \o "build.ninja"

RootNinjaPath == ObjRoot \o "/" \o "build.ninja"

NinjaRuleName == "invoke"

\* libutil md5, as lowercase hex, of the phony outputs the model uses
MD5Hex(s) ==
    CASE s = "/products/App" -> "22d6043724858096bf790a56a903a81b"
      [] s = "/products/Lib" -> "9be809e641a42ee0bb840bdc31017252"
      [] s = "/obj/shared/b.h" -> "a1da281c4fc30811cc9f143f8b6e177f"

NinjaPhonyOutputTarget(phonyOutput) == ".ninja-phony-output-" \o MD5Hex(phonyOutput)

(***************************************************************************)
(* NinjaExecutor.cpp: ShellEscape and ResolveExecutable.                   *)
(***************************************************************************)
\* alphabet + digits + "@%_-+=:,./"
SafeCharacters ==
    {
         "a", "b", "c", "d", "e", "f", "g", "h", "i", "j", "k", "l", "m",
         "n", "o", "p", "q", "r", "s", "t", "u", "v", "w", "x", "y", "z",
         "A", "B", "C", "D", "E", "F", "G", "H", "I", "J", "K", "L", "M",
         "N", "O", "P", "Q", "R", "S", "T", "U", "V", "W", "X", "Y", "Z",
         "0", "1", "2", "3", "4", "5", "6", "7", "8", "9", "@", "%", "_",
         "-", "+", "=", ":", ",", ".", "/"}

\* result.find("'", offset), 0 when there is none
RECURSIVE FindQuote(_, _)
FindQuote(s, offset) ==
    IF offset > Len(s) THEN 0
    ELSE IF CharAt(s, offset) = "'" THEN offset
    ELSE FindQuote(s, offset + 1)

\* the while loop of ShellEscape: replace each ' by '"'"' and step over it
RECURSIVE ReplaceQuotes(_, _)
ReplaceQuotes(result, offset) ==
    LET at == FindQuote(result, offset)
    IN  IF at = 0 THEN result
        ELSE ReplaceQuotes(SubSeq(result, 1, at - 1) \o "'\"'\"'" \o SubSeq(result, at + 1, Len(result)),
                           at + 5)

ShellEscape(value) ==
    IF \A k \in 1..Len(value) : CharAt(value, k) \in SafeCharacters
    THEN value
    ELSE "'" \o ReplaceQuotes(value, 1) \o "'"

BuiltinPrefix == "builtin-"

ResolveExecutable(executable, searchPaths) ==
    LET builtin == /\ Len(executable) >= Len(BuiltinPrefix)
                   /\ SubSeq(executable, 1, Len(BuiltinPrefix)) = BuiltinPrefix
    IN  IF builtin THEN ""
        ELSE IF ~IsAbsolutePath(executable) THEN FindExecutable(executable, searchPaths)
        ELSE executable

\* exec = ShellEscape(executable) followed by " " + ShellEscape(arg) for each argument
RECURSIVE ExecString(_, _)
ExecString(exec, arguments) ==
    IF arguments = <<>> THEN exec
    ELSE ExecString(exec \o " " \o ShellEscape(Head(arguments)), Tail(arguments))

(***************************************************************************)
(* ninja::Writer: the items of a graph file, in the order they were added. *)
(***************************************************************************)
Binding(name, value) == [name |-> name, value |-> value]

Rule(name, command) ==
    [type |-> "rule", outputs |-> <<>>, rule |-> name, inputs |-> <<>>,
     bindings |-> <<Binding("command", command)>>,
     dependencies |-> <<>>, orderDependencies |-> <<>>]

Build(outputs, rule, inputs, bindings, dependencies, orderDependencies) ==
    [type |-> "build", outputs |-> outputs, rule |-> rule, inputs |-> inputs,
     bindings |-> bindings,
     dependencies |-> dependencies, orderDependencies |-> orderDependencies]

Subninja(path) ==
    [type |-> "subninja", outputs |-> <<>>, rule |-> "", inputs |-> <<path>>,
     bindings |-> <<>>,
     dependencies |-> <<>>, orderDependencies |-> <<>>]

(***************************************************************************)
(* Tool::Invocation values the phase resolvers hand to the executor.       *)
(***************************************************************************)
AuxiliaryFile(path, executable) == [path |-> path, executable |-> executable]

Invocation(executable, arguments, workingDirectory, inputs, outputs, phonyInputs, phonyOutputs, inputDependencies, orderDependencies, auxiliaryFiles) ==
    [executable |-> executable, arguments |-> arguments,
     workingDirectory |-> workingDirectory, inputs |-> inputs, outputs |-> outputs,
     phonyInputs |-> phonyInputs, phonyOutputs |-> phonyOutputs,
     inputDependencies |-> inputDependencies, orderDependencies |-> orderDependencies,
     auxiliaryFiles |-> auxiliaryFiles]

\* compiler with an absolute path, two outputs in one directory and one in
\* another, and an executable wrapper script as auxiliary file
Compile ==
    Invocation("/usr/bin/clang", <<"-c", "a b.c">>, "/my src", <<"/src/a b.c">>,
               <<"/obj/shared/a.o", "/obj/shared/a.d", "/obj/own/a.dia">>, <<>>, <<>>,
               <<"/obj/aux/cc.sh">>, <<>>, <<AuxiliaryFile("/obj/aux/cc.sh", TRUE)>>)

\* linker found on the search paths, with a link file list as auxiliary file
Link ==
    Invocation("ld", <<"-o", "/products/App">>, "/src", <<"/obj/shared/a.o">>,
               <<"/products/App">>, <<>>, <<>>, <<"/obj/aux/App.list">>, <<>>,
               <<AuxiliaryFile("/obj/aux/App.list", FALSE)>>)

\* modifies the linked product in place
Strip ==
    Invocation("strip", <<"/products/App">>, "/src", <<"/products/App">>,
               <<>>, <<>>, <<"/products/App">>, <<>>, <<>>, <<>>)

\* also modifies the linked product in place
Sign ==
    Invocation("/usr/bin/codesign", <<"it's">>, "/src", <<"/products/App">>,
               <<>>, <<"/src/entitlements">>, <<"/products/App">>, <<>>,
               <<"/products/App">>, <<>>)

\* builtin tool: ResolveExecutable returns the empty string
Copy ==
    Invocation("builtin-copy", <<"/src/b.h">>, "/src", <<"/src/b.h">>,
               <<"/obj/shared/b.h">>, <<"/src/b.h">>, <<>>, <<>>, <<>>, <<>>)

\* no executable: carries outputs only
Stub ==
    Invocation("", <<>>, "/src", <<>>, <<"/obj/own/stub">>, <<>>, <<>>, <<>>, <<>>, <<>>)

\* tool that is not on the search paths
Missing ==
    Invocation("lex", <<>>, "/src", <<"/src/l.l">>, <<"/obj/own/l.c">>, <<>>, <<>>,
               <<>>, <<>>, <<>>)

\* the invocations in the order the phases of a target produce them
InvocationPool == <<Stub, Compile, Copy, Missing, Link, Strip, Sign>>

\* the targets of the build and the dependency graphs over them
Targets == {"A", "B"}

\* every ordering of the elements of a finite set
Orderings(S) == {s \in DistinctSeqs(S, Cardinality(S)) : Len(s) = Cardinality(S)}

\* t reaches u along one or more edges of the adjacency function adj
RECURSIVE ReachableIn(_, _, _, _)
ReachableIn(adj, from, to, steps) ==
    IF steps = 0 THEN FALSE
    ELSE \E next \in Range(adj[from]) : next = to \/ ReachableIn(adj, next, to, steps - 1)

AcyclicTargetGraph(adj) == \A t \in Targets : ~ReachableIn(adj, t, t, Cardinality(Targets))

\* DirectedGraph<Target>: adjacent(t) lists the targets t depends on
TargetGraphs == {adj \in [Targets -> DistinctSeqs(Targets, Cardinality(Targets))] : AcyclicTargetGraph(adj)}

\* the elements of a set of numbers, in ascending order
RECURSIVE Ascending(_)
Ascending(S) ==
    IF S = {} THEN <<>>
    ELSE LET least == CHOOSE a \in S : \A b \in S : a <= b
         IN  <<least>> \o Ascending(S \ {least})

\* the invocation lists of the phases of one target: up to MaxInvocations
\* invocations of the pool, in phase order
InvocationLists ==
    {[k \in 1..Len(Ascending(picked)) |-> InvocationPool[Ascending(picked)[k]]] :
        picked \in {P \in SUBSET (1..Len(InvocationPool)) : Cardinality(P) <= MaxInvocations}}

\* every real output of every invocation of a target
RealOutputs(invocations) == UNION {Range(invocations[k].outputs) : k \in 1..Len(invocations)}

\* the resolvers give every real output to one invocation of one target only
DisjointOutputs(invs) ==
    /\ \A t \in Targets : \A a, b \in 1..Len(invs[t]) :
           a # b => Range(invs[t][a].outputs) \cap Range(invs[t][b].outputs) = {}
    /\ \A t, u \in Targets : t # u => RealOutputs(invs[t]) \cap RealOutputs(invs[u]) = {}

(***************************************************************************)
(* State.                                                                  *)
(***************************************************************************)
VARIABLES
    dryRun,            \* NinjaExecutor::_dryRun
    nodes,             \* targetGraph.nodes(), in iteration order
    adjacent,          \* targetGraph.adjacent(target)
    phaseInvocations,  \* PhaseInvocations::Create(...).invocations() per target
    pc,                \* position of build()
    writer,            \* the root ninja::Writer of the running call
    seenDirectories,   \* the seenDirectories set of the running call
    index,             \* position of the target walk in nodes
    environments,      \* targets whose target environment resolved in this call
    result,            \* return value of build(): "none", "true" or "false"
    fileStatus,        \* per path on disk: "absent", "written" or "partial"
    ninjaFiles         \* contents of the graph files on disk

\* state of the command line handed to the shell (lines 474-481)
VARIABLES
    shellPc,           \* "compose", "shell" or "ran"
    shellExecutable,   \* the resolved executable of an invocation
    shellArguments,    \* invocation.arguments()
    shellExec,         \* the exec binding
    shellArgv          \* the words the shell makes of exec

\* state of FrameworksResolver::Create
VARIABLES
    linkPc,                 \* position of Create
    specs,                  \* tool specs the spec manager knows
    binaryType,             \* MACH_O_TYPE
    variants,               \* targetEnvironment.variants()
    architectures,          \* targetEnvironment.architectures()
    debugInformationFormat, \* DEBUG_INFORMATION_FORMAT per variant
    variantIndex,           \* position of the variant loop
    architectureIndex,      \* position of the architecture loop
    universalBinaryInputs,  \* universalBinaryInputs of the running variant
    linkInvocations,        \* the invocations vector of Create
    created                 \* "none", "null" or "resolver": what Create returned

escapeVars == <<shellPc, shellExecutable, shellArguments, shellExec, shellArgv>>

linkVars == <<linkPc, specs, binaryType, variants, architectures, debugInformationFormat,
              variantIndex, architectureIndex, universalBinaryInputs, linkInvocations, created>>

emitterVars == <<dryRun, nodes, adjacent, phaseInvocations, pc, writer,
                 seenDirectories, index, environments, result, fileStatus, ninjaFiles>>

NinjaPaths == {RootNinjaPath} \cup {TargetNinjaPath(t) : t \in Targets}

AuxiliaryPaths ==
    UNION {{i.auxiliaryFiles[k].path : k \in 1..Len(i.auxiliaryFiles)} : i \in Range(InvocationPool)}

DiskPaths == NinjaPaths \cup AuxiliaryPaths

(***************************************************************************)
(* NinjaExecutor.cpp: NinjaDescription and the Formatter.                  *)
(***************************************************************************)
RECURSIVE FindNewline(_, _)
FindNewline(s, k) ==
    IF k > Len(s) THEN 0
    ELSE IF CharAt(s, k) = "\n" THEN k
    ELSE FindNewline(s, k + 1)

NinjaDescription(description) ==
    LET newline == FindNewline(description, 1)
    IN  IF newline # 0 THEN SubSeq(description, 1, newline - 1) ELSE description

\* Formatter::createAuxiliaryDirectory and Formatter::beginInvocation
FormatCreateAuxiliaryDirectory(directory) == "MkDir " \o directory \o "\n    /bin/mkdir -p"

FormatBeginInvocation(invocation, executable) == "Run " \o executable

(***************************************************************************)
(* NinjaExecutor::buildTargetOutputDirectories.                            *)
(***************************************************************************)
\* the (invocation, output) pairs in the order the two nested loops visit them
OutputVisits(invocations) ==
    Flatten([k \in 1..Len(invocations) |->
                [j \in 1..Len(invocations[k].outputs) |->
                    [output |-> invocations[k].outputs[j],
                     workingDirectory |-> invocations[k].workingDirectory]]])

\* the build command that creates one output directory
MkdirEdge(outputDirectory, workingDirectory, targetBegin) ==
    Build(<<outputDirectory>>, NinjaRuleName, <<>>,
          <<Binding("description", NinjaDescription(FormatCreateAuxiliaryDirectory(outputDirectory))),
            Binding("dir", ShellEscape(workingDirectory)),
            Binding("exec", "/bin/mkdir -p " \o ShellEscape(outputDirectory))>>,
          <<>>, <<targetBegin>>)

\* VisitOutput without the lookup in seenDirectories
VisitOutputAlways(state, visit, targetBegin) ==
    [seenDirectories |-> state.seenDirectories \cup {GetDirectoryName(visit.output)},
     writer |-> Append(state.writer,
                       MkdirEdge(GetDirectoryName(visit.output), visit.workingDirectory, targetBegin))]

\* one iteration of the inner loop: skip a seen directory, else insert it and add its edge
VisitOutput(state, visit, targetBegin) ==
    LET outputDirectory == GetDirectoryName(visit.output)
    IN  IF outputDirectory \in state.seenDirectories
        THEN state
        ELSE [seenDirectories |-> state.seenDirectories \cup {outputDirectory},
              writer |-> Append(state.writer,
                                MkdirEdge(outputDirectory, visit.workingDirectory, targetBegin))]

RECURSIVE OutputDirectoriesLoop(_, _, _)
OutputDirectoriesLoop(state, visits, targetBegin) ==
    IF visits = <<>> THEN state
    ELSE OutputDirectoriesLoop(VisitOutput(state, Head(visits), targetBegin),
                               Tail(visits), targetBegin)

buildTargetOutputDirectories(w, target, invocations, seen) ==
    OutputDirectoriesLoop([seenDirectories |-> seen, writer |-> w],
                          OutputVisits(invocations), TargetNinjaBegin(target))

(***************************************************************************)
(* NinjaExecutor::buildTargetAuxiliaryFiles.                               *)
(***************************************************************************)
\* what the filesystem does to one auxiliary file
AuxiliaryOutcomes(auxiliaryFile) ==
    {"ok", "createDirectoryFailed", "openFailed", "writeFailed"}
        \cup (IF auxiliaryFile.executable THEN {"chmodFailed"} ELSE {})

AllAuxiliaryFiles(invocations) ==
    Flatten([k \in 1..Len(invocations) |-> invocations[k].auxiliaryFiles])

\* the loop over the auxiliary files: the first detected failure returns false;
\* the result of out.write is not looked at
RECURSIVE AuxiliaryFilesLoop(_, _, _)
AuxiliaryFilesLoop(files, outcomes, status) ==
    IF files = <<>> THEN [ok |-> TRUE, status |-> status]
    ELSE LET file == Head(files)
             outcome == Head(outcomes)
         IN  CASE outcome \in {"createDirectoryFailed", "openFailed"} ->
                      [ok |-> FALSE, status |-> status]
               [] outcome = "chmodFailed" ->
                      [ok |-> FALSE, status |-> [status EXCEPT ![file.path] = "written"]]
               [] outcome = "writeFailed" ->
                      AuxiliaryFilesLoop(Tail(files), Tail(outcomes),
                                         [status EXCEPT ![file.path] = "partial"])
               [] OTHER ->
                      AuxiliaryFilesLoop(Tail(files), Tail(outcomes),
                                         [status EXCEPT ![file.path] = "written"])

buildTargetAuxiliaryFiles(invocations, outcomes, status) ==
    IF dryRun THEN [ok |-> TRUE, status |-> status]
    ELSE AuxiliaryFilesLoop(AllAuxiliaryFiles(invocations), outcomes, status)

(***************************************************************************)
(* NinjaExecutor::buildTargetInvocations: the edges of one invocation.     *)
(***************************************************************************)
\* the distinct directories of the real outputs of an invocation
OutputDirectories(invocation) ==
    {GetDirectoryName(invocation.outputs[k]) : k \in 1..Len(invocation.outputs)}

PhonyInputEdge(phonyInput) == Build(<<phonyInput>>, "phony", <<>>, <<>>, <<>>, <<>>)

\* outputs followed by the fake path of every phony output
InvocationEdgeOutputs(invocation) ==
    invocation.outputs
        \o [k \in 1..Len(invocation.phonyOutputs) |->
               NinjaPhonyOutputTarget(invocation.phonyOutputs[k])]

\* InvocationOrderDependencies with the target's begin pushed first
InvocationOrderDependenciesBeginFirst(invocation, directoryOrder, targetBegin) ==
    (<<targetBegin>> \o invocation.orderDependencies) \o directoryOrder

\* own order dependencies, then the output directories, then the target's begin
InvocationOrderDependencies(invocation, directoryOrder, targetBegin) ==
    (invocation.orderDependencies \o directoryOrder) \o <<targetBegin>>

\* InvokeEdge whose order dependencies leave out the target's begin
InvokeEdgeWithoutBegin(invocation, executable, directoryOrder, targetBegin) ==
    Build(InvocationEdgeOutputs(invocation), NinjaRuleName, invocation.inputs,
          <<Binding("description", NinjaDescription(FormatBeginInvocation(invocation, executable))),
            Binding("dir", ShellEscape(invocation.workingDirectory)),
            Binding("exec", ExecString(ShellEscape(executable), invocation.arguments))>>,
          invocation.inputDependencies,
          invocation.orderDependencies \o directoryOrder)

\* lines 483-579: the build command of one invocation
InvokeEdge(invocation, executable, directoryOrder, targetBegin) ==
    Build(InvocationEdgeOutputs(invocation), NinjaRuleName, invocation.inputs,
          <<Binding("description", NinjaDescription(FormatBeginInvocation(invocation, executable))),
            Binding("dir", ShellEscape(invocation.workingDirectory)),
            Binding("exec", ExecString(ShellEscape(executable), invocation.arguments))>>,
          invocation.inputDependencies,
          InvocationOrderDependencies(invocation, directoryOrder, targetBegin))

\* one iteration of the invocation loop; directoryOrder is the iteration order of
\* the unordered set of output directories
\* InvocationItems whose invoke edge does not wait for the output directories
InvocationItemsWithoutDirectories(invocation, directoryOrder, targetBegin) ==
    IF invocation.executable = "" THEN <<>>
    ELSE LET executable == ResolveExecutable(invocation.executable, SdkExecutablePaths)
         IN  IF executable = "" THEN <<>>
             ELSE [k \in 1..Len(invocation.phonyInputs) |->
                      PhonyInputEdge(invocation.phonyInputs[k])]
                  \o <<InvokeEdge(invocation, executable, <<>>, targetBegin)>>

\* lines 457-580: one iteration of the invocation loop
InvocationItems(invocation, directoryOrder, targetBegin) ==
    IF invocation.executable = "" THEN <<>>
    ELSE LET executable == ResolveExecutable(invocation.executable, SdkExecutablePaths)
         IN  IF executable = "" THEN <<>>
             ELSE [k \in 1..Len(invocation.phonyInputs) |->
                      PhonyInputEdge(invocation.phonyInputs[k])]
                  \o <<InvokeEdge(invocation, executable, directoryOrder, targetBegin)>>

\* the writer of a target's file after the invocation loop
TargetWriter(target, invocations, directoryOrders) ==
    Flatten([k \in 1..Len(invocations) |->
                InvocationItems(invocations[k], directoryOrders[k], TargetNinjaBegin(target))])

\* the iteration orders the unordered sets of the invocations may have
DirectoryOrders(invocations) ==
    {orders \in [1..Len(invocations) ->
                    UNION {Orderings(OutputDirectories(invocations[k])) : k \in 1..Len(invocations)}] :
        \A k \in 1..Len(invocations) : orders[k] \in Orderings(OutputDirectories(invocations[k]))}

\* what the filesystem does when WriteNinja writes a graph file
WriteNinjaOutcomes == {"ok", "createDirectoryFailed", "openFailed", "writeFailed"}

\* WriteNinja returns false only when the directory or the open fails
WriteNinjaOk(outcome) == outcome \notin {"createDirectoryFailed", "openFailed"}

\* the file on disk after WriteNinja
WriteNinjaStatus(status, path, outcome) ==
    CASE outcome = "ok" -> [status EXCEPT ![path] = "written"]
      [] outcome = "writeFailed" -> [status EXCEPT ![path] = "partial"]
      [] OTHER -> status

WriteNinjaContents(files, path, contents, outcome) ==
    CASE outcome = "ok" -> [files EXCEPT ![path] = contents]
      [] outcome = "writeFailed" -> [files EXCEPT ![path] = <<>>]
      [] OTHER -> files

(***************************************************************************)
(* NinjaExecutor::build, one action per stretch of the function.           *)
(***************************************************************************)
\* the target the walk is at
Target == nodes[index]

\* BeginEdge that depends on every target walked before, not on the adjacent ones
BeginEdgeOfEarlierTargets(target) ==
    Build(<<TargetNinjaBegin(target)>>, "phony",
          [k \in 1..(index - 1) |-> TargetNinjaFinish(nodes[k])],
          <<>>, <<>>, <<>>)

\* the begin edge: the finish of every adjacent target is passed as the inputs
BeginEdge(target) ==
    Build(<<TargetNinjaBegin(target)>>, "phony",
          [k \in 1..Len(adjacent[target]) |-> TargetNinjaFinish(adjacent[target][k])],
          <<>>, <<>>, <<>>)

\* invocationOutputs: every output of every invocation, in order
InvocationOutputs(invocations) ==
    Flatten([k \in 1..Len(invocations) |-> invocations[k].outputs])

\* invocationOrderOnlyOutputs: the fake path of every phony output, in order
InvocationOrderOnlyOutputs(invocations) ==
    Flatten([k \in 1..Len(invocations) |->
                [j \in 1..Len(invocations[k].phonyOutputs) |->
                    NinjaPhonyOutputTarget(invocations[k].phonyOutputs[j])]])

\* FinishEdge with its last two arguments exchanged
FinishEdgeExchanged(target, invocations) ==
    Build(<<TargetNinjaFinish(target)>>, "phony", <<>>, <<>>,
          InvocationOrderOnlyOutputs(invocations), InvocationOutputs(invocations))

\* the finish edge: no inputs, no bindings, outputs as dependencies, fake paths order-only
FinishEdge(target, invocations) ==
    Build(<<TargetNinjaFinish(target)>>, "phony", <<>>, <<>>,
          InvocationOutputs(invocations), InvocationOrderOnlyOutputs(invocations))

\* the state the other two components rest in while the emitter runs
EscapeIdle ==
    /\ shellPc = "ran"
    /\ shellExecutable = ""
    /\ shellArguments = <<>>
    /\ shellExec = ""
    /\ shellArgv = <<>>

LinkIdle ==
    /\ linkPc = "returned"
    /\ specs = {}
    /\ binaryType = ""
    /\ variants = <<>>
    /\ architectures = <<>>
    /\ debugInformationFormat = <<>>
    /\ variantIndex = 1
    /\ architectureIndex = 1
    /\ universalBinaryInputs = <<>>
    /\ linkInvocations = <<>>
    /\ created = "none"

EmitterInit ==
    /\ dryRun \in BOOLEAN
    /\ nodes \in Orderings(Targets)
    /\ adjacent \in TargetGraphs
    /\ phaseInvocations \in {invs \in [Targets -> InvocationLists] : DisjointOutputs(invs)}
    /\ pc = "idle"
    /\ writer = <<>>
    /\ seenDirectories = {}
    /\ index = 1
    /\ environments = {}
    /\ result = "none"
    /\ fileStatus = [path \in DiskPaths |-> "absent"]
    /\ ninjaFiles = [path \in NinjaPaths |-> <<>>]

\* lines 143-194: a call starts with a fresh writer and a fresh seenDirectories
StartBuild ==
    /\ pc = "idle"
    /\ writer' = <<Rule(NinjaRuleName, "cd $dir && $exec")>>
    /\ seenDirectories' = {}
    /\ index' = 1
    /\ environments' = {}
    /\ result' = "none"
    /\ pc' = "walk"
    /\ UNCHANGED <<escapeVars, linkVars, dryRun, nodes, adjacent, phaseInvocations, fileStatus, ninjaFiles>>

\* lines 200-232: the begin edge of the next target
BeginTarget ==
    /\ pc = "walk"
    /\ index <= Len(nodes)
    /\ writer' = Append(writer, BeginEdge(Target))
    /\ pc' = "environment"
    /\ UNCHANGED <<escapeVars, linkVars, dryRun, nodes, adjacent, phaseInvocations, seenDirectories,
                   index, environments, result, fileStatus, ninjaFiles>>

\* TargetEnvironmentFails that ends the build with failure
TargetEnvironmentFailsBuild ==
    /\ pc = "environment"
    /\ result' = "false"
    /\ pc' = "returned"
    /\ UNCHANGED <<escapeVars, linkVars, dryRun, nodes, adjacent, phaseInvocations, writer,
                   seenDirectories, index, environments, fileStatus, ninjaFiles>>

\* lines 237-241: no target environment, continue with the next target
TargetEnvironmentFails ==
    /\ pc = "environment"
    /\ index' = index + 1
    /\ pc' = "walk"
    /\ UNCHANGED <<escapeVars, linkVars, dryRun, nodes, adjacent, phaseInvocations, writer,
                   seenDirectories, environments, result, fileStatus, ninjaFiles>>

\* lines 237-244: the target environment and the phase invocations
TargetEnvironmentResolves ==
    /\ pc = "environment"
    /\ environments' = environments \cup {Target}
    /\ pc' = "directories"
    /\ UNCHANGED <<escapeVars, linkVars, dryRun, nodes, adjacent, phaseInvocations, writer,
                   seenDirectories, index, result, fileStatus, ninjaFiles>>

\* lines 246-252: the mkdir edges go to the root writer; the call cannot fail
TargetOutputDirectories ==
    /\ pc = "directories"
    /\ LET after == buildTargetOutputDirectories(writer, Target, phaseInvocations[Target],
                                                 seenDirectories)
       IN  /\ writer' = after.writer
           /\ seenDirectories' = after.seenDirectories
    /\ pc' = "invocations"
    /\ UNCHANGED <<escapeVars, linkVars, dryRun, nodes, adjacent, phaseInvocations, index,
                   environments, result, fileStatus, ninjaFiles>>

AuxiliaryOutcomeSeqs(files) ==
    {outcomes \in [1..Len(files) -> {"ok", "createDirectoryFailed", "openFailed",
                                     "writeFailed", "chmodFailed"}] :
        \A k \in 1..Len(files) : outcomes[k] \in AuxiliaryOutcomes(files[k])}

\* lines 257-259 with 448-453: an auxiliary file fails, build returns false
TargetAuxiliaryFilesFail ==
    /\ pc = "invocations"
    /\ \E outcomes \in AuxiliaryOutcomeSeqs(AllAuxiliaryFiles(phaseInvocations[Target])) :
          LET aux == buildTargetAuxiliaryFiles(phaseInvocations[Target], outcomes, fileStatus)
          IN  /\ ~aux.ok
              /\ fileStatus' = aux.status
    /\ result' = "false"
    /\ pc' = "returned"
    /\ UNCHANGED <<escapeVars, linkVars, dryRun, nodes, adjacent, phaseInvocations, writer,
                   seenDirectories, index, environments, ninjaFiles>>

\* lines 257-259 with 438-596: the auxiliary files, the edges and the target's file
TargetInvocations ==
    /\ pc = "invocations"
    /\ \E outcomes \in AuxiliaryOutcomeSeqs(AllAuxiliaryFiles(phaseInvocations[Target])),
          directoryOrders \in DirectoryOrders(phaseInvocations[Target]),
          outcome \in WriteNinjaOutcomes :
          LET aux == buildTargetAuxiliaryFiles(phaseInvocations[Target], outcomes, fileStatus)
              contents == TargetWriter(Target, phaseInvocations[Target], directoryOrders)
              path == TargetNinjaPath(Target)
          IN  /\ aux.ok
              /\ fileStatus' = WriteNinjaStatus(aux.status, path, outcome)
              /\ ninjaFiles' = WriteNinjaContents(ninjaFiles, path, contents, outcome)
              /\ result' = IF WriteNinjaOk(outcome) THEN result ELSE "false"
              /\ pc' = IF WriteNinjaOk(outcome) THEN "finish" ELSE "returned"
    /\ UNCHANGED <<escapeVars, linkVars, dryRun, nodes, adjacent, phaseInvocations, writer,
                   seenDirectories, index, environments>>

\* FinishTarget that does not load the target's file
FinishTargetWithoutSubninja ==
    /\ pc = "finish"
    /\ writer' = Append(writer, FinishEdge(Target, phaseInvocations[Target]))
    /\ index' = index + 1
    /\ pc' = "walk"
    /\ UNCHANGED <<escapeVars, linkVars, dryRun, nodes, adjacent, phaseInvocations,
                   seenDirectories, environments, result, fileStatus, ninjaFiles>>

\* lines 261-287: the subninja line and the finish edge
FinishTarget ==
    /\ pc = "finish"
    /\ writer' = writer \o <<Subninja(TargetNinjaPath(Target)),
                             FinishEdge(Target, phaseInvocations[Target])>>
    /\ index' = index + 1
    /\ pc' = "walk"
    /\ UNCHANGED <<escapeVars, linkVars, dryRun, nodes, adjacent, phaseInvocations, seenDirectories,
                   environments, result, fileStatus, ninjaFiles>>

\* lines 289-302: the root file
WriteRoot ==
    /\ pc = "walk"
    /\ index > Len(nodes)
    /\ \E outcome \in WriteNinjaOutcomes :
          /\ fileStatus' = WriteNinjaStatus(fileStatus, RootNinjaPath, outcome)
          /\ ninjaFiles' = WriteNinjaContents(ninjaFiles, RootNinjaPath, writer, outcome)
          /\ result' = IF WriteNinjaOk(outcome) THEN "true" ELSE "false"
    /\ pc' = "returned"
    /\ UNCHANGED <<escapeVars, linkVars, dryRun, nodes, adjacent, phaseInvocations, writer,
                   seenDirectories, index, environments>>

vars == <<emitterVars, escapeVars, linkVars>>

Next ==
    \/ StartBuild
    \/ BeginTarget
    \/ TargetEnvironmentFails
    \/ TargetEnvironmentResolves
    \/ TargetOutputDirectories
    \/ TargetAuxiliaryFilesFail
    \/ TargetInvocations
    \/ FinishTarget
    \/ WriteRoot

Init == EmitterInit /\ EscapeIdle /\ LinkIdle

Spec == Init /\ [][Next]_vars

(***************************************************************************)
(* Views of the emitted graph.                                             *)
(***************************************************************************)
\* the file of a target as it is on disk
TargetFile(target) == ninjaFiles[TargetNinjaPath(target)]

\* positions of the build edges of a file that list path among their outputs
Producers(items, path) ==
    {k \in 1..Len(items) : items[k].type = "build" /\ path \in Range(items[k].outputs)}

RECURSIVE SumOver(_, _)
SumOver(S, count) ==
    IF S = {} THEN 0
    ELSE LET t == CHOOSE u \in S : TRUE
         IN  count[t] + SumOver(S \ {t}, count)

\* number of build edges, root writer and target files together, that output path
ProducerCount(path) ==
    Cardinality(Producers(writer, path))
        + SumOver(Targets, [t \in Targets |-> Cardinality(Producers(TargetFile(t), path))])

\* positions of the invoke edges of a target's file
InvokeEdges(target) ==
    {k \in 1..Len(TargetFile(target)) :
        TargetFile(target)[k].type = "build" /\ TargetFile(target)[k].rule = NinjaRuleName}

\* positions of the mkdir edges of the root writer that create directory
MkdirEdges(directory) ==
    {k \in 1..Len(writer) :
        /\ writer[k].type = "build"
        /\ writer[k].rule = NinjaRuleName
        /\ writer[k].outputs = <<directory>>}

\* positions of the phony edges of a file that output name
PhonyEdgesIn(items, name) ==
    {k \in 1..Len(items) :
        /\ items[k].type = "build"
        /\ items[k].rule = "phony"
        /\ items[k].outputs = <<name>>}

PhonyEdges(name) == PhonyEdgesIn(writer, name)

\* positions of the subninja lines of a file that load path
SubninjaLinesIn(items, path) ==
    {k \in 1..Len(items) : items[k].type = "subninja" /\ items[k].inputs = <<path>>}

\* an invocation that gets an invoke edge: it has an executable and it resolves
Emitted(invocation) ==
    /\ invocation.executable # ""
    /\ ResolveExecutable(invocation.executable, SdkExecutablePaths) # ""

\* the walk is at target t
AtTarget(t) == index <= Len(nodes) /\ nodes[index] = t

\* targets of this call that are past buildTargetOutputDirectories
PastDirectories ==
    {t \in environments : ~(AtTarget(t) /\ pc = "directories")}

\* targets of this call whose finish edge is in the root writer
Finished ==
    {t \in environments : ~AtTarget(t)}

\* targets of this call whose begin edge is in the root writer
Begun ==
    {nodes[k] : k \in {j \in 1..Len(nodes) : j < index \/ (j = index /\ pc \notin {"idle", "walk"})}}

(***************************************************************************)
(* C1: after a build run every real output and every fake phony output is  *)
(* an output of at most one build edge of the root graph and the target    *)
(* graphs together.                                                        *)
(***************************************************************************)
C1_OneProducerPerPath ==
    pc = "returned" =>
        \A t \in Targets : \A k \in InvokeEdges(t) :
            \A path \in Range(TargetFile(t)[k].outputs) : ProducerCount(path) <= 1

C3_FinishHasOutputsAsInputs ==
    \A t \in Finished :
        /\ Cardinality(PhonyEdges(TargetNinjaFinish(t))) = 1
        /\ \A k \in PhonyEdges(TargetNinjaFinish(t)) :
              \A i \in Range(phaseInvocations[t]) :
                  /\ Emitted(i) => Range(i.outputs) \subseteq Range(writer[k].inputs)
                  /\ \A phonyOutput \in Range(i.phonyOutputs) :
                        NinjaPhonyOutputTarget(phonyOutput) \in Range(writer[k].orderDependencies)

(***************************************************************************)
(* C3 amended: the finish edge of a target has no explicit inputs; it      *)
(* lists every real output of every invocation that was not skipped as an  *)
(* implicit dependency, and the fake path of every phony output as an      *)
(* order-only input.                                                       *)
(***************************************************************************)
C3_FinishHasOutputsAsDependencies ==
    \A t \in Finished :
        /\ Cardinality(PhonyEdges(TargetNinjaFinish(t))) = 1
        /\ \A k \in PhonyEdges(TargetNinjaFinish(t)) :
              /\ writer[k].inputs = <<>>
              /\ \A i \in Range(phaseInvocations[t]) :
                    /\ Emitted(i) => Range(i.outputs) \subseteq Range(writer[k].dependencies)
                    /\ \A phonyOutput \in Range(i.phonyOutputs) :
                          NinjaPhonyOutputTarget(phonyOutput) \in Range(writer[k].orderDependencies)

\* a finished target with an emitted invocation that has real outputs and an
\* invocation that has a phony output
C3_Witness ==
    \E t \in Finished :
        /\ \E i \in Range(phaseInvocations[t]) : Emitted(i) /\ i.outputs # <<>>
        /\ \E i \in Range(phaseInvocations[t]) : i.phonyOutputs # <<>>

(***************************************************************************)
(* C4: every invoke edge in the file of a target has the begin node of     *)
(* that target as the last entry of its order-only dependencies.           *)
(***************************************************************************)
C4_BeginIsLastOrderDependency ==
    \A t \in Targets : \A k \in InvokeEdges(t) :
        LET orderDependencies == TargetFile(t)[k].orderDependencies
        IN  /\ Len(orderDependencies) >= 1
            /\ orderDependencies[Len(orderDependencies)] = TargetNinjaBegin(t)

\* a file with an invoke edge that has an order dependency of its own and one
\* that has output directories
C4_Witness ==
    \E t \in Targets :
        /\ fileStatus[TargetNinjaPath(t)] = "written"
        /\ \E k \in InvokeEdges(t) :
              TargetFile(t)[k].orderDependencies = <<"/products/App", TargetNinjaBegin(t)>>
        /\ \E k \in InvokeEdges(t) :
              Len(TargetFile(t)[k].orderDependencies) = 3 /\ TargetFile(t)[k].inputs # <<>>

(***************************************************************************)
(* C5 as stated: the begin edge of a target lists the finish nodes of      *)
(* exactly the adjacent targets, as order-only inputs.                     *)
(***************************************************************************)
C5_BeginOrderDependsOnAdjacent ==
    \A t \in Begun :
        /\ Cardinality(PhonyEdges(TargetNinjaBegin(t))) = 1
        /\ \A k \in PhonyEdges(TargetNinjaBegin(t)) :
              /\ Range(writer[k].orderDependencies)
                     = {TargetNinjaFinish(p) : p \in Range(adjacent[t])}
              /\ adjacent[t] = <<>> =>
                     writer[k].inputs = <<>> /\ writer[k].dependencies = <<>>

(***************************************************************************)
(* C5 amended: the begin edge of a target lists the finish nodes of        *)
(* exactly the adjacent targets, as explicit inputs; it has no implicit    *)
(* and no order-only dependencies, and no inputs at all when the target    *)
(* has no dependencies.                                                    *)
(***************************************************************************)
C5_BeginDependsOnAdjacent ==
    \A t \in Begun :
        /\ Cardinality(PhonyEdges(TargetNinjaBegin(t))) = 1
        /\ \A k \in PhonyEdges(TargetNinjaBegin(t)) :
              /\ Range(writer[k].inputs) = {TargetNinjaFinish(p) : p \in Range(adjacent[t])}
              /\ Len(writer[k].inputs) = Len(adjacent[t])
              /\ writer[k].dependencies = <<>>
              /\ writer[k].orderDependencies = <<>>

\* the begin edges of a target with a dependency, walked after a target without
C5_Witness ==
    \E t, u \in Begun :
        /\ adjacent[t] # <<>>
        /\ adjacent[u] = <<>>
        /\ nodes = <<u, t>>

(***************************************************************************)
(* C7 as stated: in the root file written by a build call that returns     *)
(* success every target of the graph has exactly one begin edge, exactly   *)
(* one finish edge and exactly one subninja line.                          *)
(***************************************************************************)
RootFile == ninjaFiles[RootNinjaPath]

RootFileWritten ==
    pc = "returned" /\ result = "true" /\ fileStatus[RootNinjaPath] = "written"

C7_EveryTargetHasBeginFinishSubninja ==
    RootFileWritten =>
        \A t \in Targets :
            /\ Cardinality(PhonyEdgesIn(RootFile, TargetNinjaBegin(t))) = 1
            /\ Cardinality(PhonyEdgesIn(RootFile, TargetNinjaFinish(t))) = 1
            /\ Cardinality(SubninjaLinesIn(RootFile, TargetNinjaPath(t))) = 1

(***************************************************************************)
(* C7 amended: in the root file written by a build call that returns       *)
(* success every target of the graph has exactly one begin edge; a target  *)
(* whose target environment resolved has exactly one finish edge and       *)
(* exactly one subninja line, a target whose target environment did not    *)
(* resolve has neither.                                                    *)
(***************************************************************************)
C7_ResolvedTargetHasBeginFinishSubninja ==
    RootFileWritten =>
        \A t \in Targets :
            /\ Cardinality(PhonyEdgesIn(RootFile, TargetNinjaBegin(t))) = 1
            /\ Cardinality(PhonyEdgesIn(RootFile, TargetNinjaFinish(t)))
                   = (IF t \in environments THEN 1 ELSE 0)
            /\ Cardinality(SubninjaLinesIn(RootFile, TargetNinjaPath(t)))
                   = (IF t \in environments THEN 1 ELSE 0)

\* a written root file of a build with one resolved and one unresolved target
C7_Witness ==
    /\ RootFileWritten
    /\ environments # {}
    /\ environments # Targets

(***************************************************************************)
(* The dependencies of the emitted graph: the root writer together with    *)
(* the target files it loads with a subninja line.                         *)
(***************************************************************************)
\* everything a build edge waits for: inputs, implicit and order-only dependencies
EdgeInputs(edge) ==
    (Range(edge.inputs) \cup Range(edge.dependencies)) \cup Range(edge.orderDependencies)

BuildEdgesOf(items) == {items[k] : k \in {j \in 1..Len(items) : items[j].type = "build"}}

LoadedTargets == {t \in Targets : SubninjaLinesIn(writer, TargetNinjaPath(t)) # {}}

GraphEdges == BuildEdgesOf(writer) \cup UNION {BuildEdgesOf(TargetFile(t)) : t \in LoadedTargets}

\* what the edges that output one of the paths wait for
DependsDirectly(paths) ==
    UNION {EdgeInputs(edge) : edge \in {g \in GraphEdges : Range(g.outputs) \cap paths # {}}}

RECURSIVE TransitiveInputs(_)
TransitiveInputs(paths) ==
    LET next == paths \cup DependsDirectly(paths)
    IN  IF next = paths THEN paths ELSE TransitiveInputs(next)

(***************************************************************************)
(* C6: when target B depends on target A, every invoke edge of B           *)
(* transitively depends on finish-target-A; once A has its finish edge,    *)
(* that edge depends directly on every real output and every fake phony    *)
(* output of A's invocations, and so every invoke edge of B transitively   *)
(* depends on every output of every invoke edge of A: no order of the      *)
(* graph runs an invocation of B before an invocation of A is done.        *)
(***************************************************************************)
C6_InvokeEdgesWaitForAdjacentTargets ==
    \A B \in Finished : \A A \in Range(adjacent[B]) : \A k \in InvokeEdges(B) :
        LET waitsFor == TransitiveInputs(EdgeInputs(TargetFile(B)[k]))
        IN  /\ TargetNinjaFinish(A) \in waitsFor
            /\ A \in Finished =>
                  /\ \A i \in Range(phaseInvocations[A]) :
                        Range(InvocationEdgeOutputs(i)) \subseteq DependsDirectly({TargetNinjaFinish(A)})
                  /\ \A j \in InvokeEdges(A) :
                        Range(TargetFile(A)[j].outputs) \subseteq waitsFor

\* both targets are emitted, B has an invoke edge, and A has two invoke edges,
\* one of them with a phony output
C6_Witness ==
    /\ pc = "returned"
    /\ result = "true"
    /\ \E B \in Finished : \E A \in Range(adjacent[B]) :
          /\ A \in Finished
          /\ InvokeEdges(B) # {}
          /\ Cardinality(InvokeEdges(A)) = 2
          /\ \E i \in Range(phaseInvocations[A]) : Emitted(i) /\ i.phonyOutputs # <<>>

(***************************************************************************)
(* C9: a filesystem write failure (auxiliary file, target file or root     *)
(* file) aborts at once: build returns failure, and a build that returns   *)
(* failure has not written the root file.                                  *)
(***************************************************************************)
C9_WriteFailureAborts ==
    /\ (\E path \in DiskPaths : fileStatus[path] = "partial") =>
           pc = "returned" /\ result = "false"
    /\ result = "false" => pc = "returned" /\ fileStatus[RootNinjaPath] = "absent"

(***************************************************************************)
(* The command line of an invoke edge and the shell that runs it.          *)
(***************************************************************************)
\* characters of the arguments: a safe one, the separator, both quotes, backslash
Alphabet == {"a", " ", "'", "\"", "\\"}

RECURSIVE Strings(_)
Strings(n) ==
    IF n = 0 THEN {""}
    ELSE Strings(n - 1) \cup {s \o c : s \in Strings(n - 1), c \in Alphabet}

\* resolved executables: plain, with a space, with a quote
Executables == {"/usr/bin/ld", "/my tools/cc", "/opt/it's/ld"}

ArgumentLists == UNION {[1..n -> Strings(MaxLen)] : n \in 0..MaxArgs}

\* the state of the shell's scanner before the first character
ShellStart == [mode |-> "unquoted", word |-> "", inWord |-> FALSE, words |-> <<>>]

\* the shell's scanner takes one character: quote removal and field splitting
ShellStep(st, c, next) ==
    CASE st.mode = "single" ->
             IF c = "'" THEN [st EXCEPT !.mode = "unquoted"]
             ELSE [st EXCEPT !.word = @ \o c]
      [] st.mode = "double" ->
             IF c = "\"" THEN [st EXCEPT !.mode = "unquoted"]
             ELSE IF c = "\\" /\ next \in {"\"", "\\"}
                  THEN [st EXCEPT !.mode = "doubleEscaped"]
             ELSE [st EXCEPT !.word = @ \o c]
      [] st.mode = "doubleEscaped" ->
             [st EXCEPT !.mode = "double", !.word = @ \o c]
      [] st.mode = "escaped" ->
             [st EXCEPT !.mode = "unquoted", !.word = @ \o c]
      [] OTHER ->
             IF c = " "
             THEN IF st.inWord
                  THEN [st EXCEPT !.words = Append(@, st.word), !.word = "", !.inWord = FALSE]
                  ELSE st
             ELSE IF c = "'" THEN [st EXCEPT !.mode = "single", !.inWord = TRUE]
             ELSE IF c = "\"" THEN [st EXCEPT !.mode = "double", !.inWord = TRUE]
             ELSE IF c = "\\" THEN [st EXCEPT !.mode = "escaped", !.inWord = TRUE]
             ELSE [st EXCEPT !.word = @ \o c, !.inWord = TRUE]

RECURSIVE ShellScan(_, _, _)
ShellScan(st, command, k) ==
    IF k > Len(command) THEN st
    ELSE ShellScan(ShellStep(st, CharAt(command, k),
                             IF k < Len(command) THEN CharAt(command, k + 1) ELSE ""),
                   command, k + 1)

\* the words of a command; <<"syntax error">> for an unterminated quote
ShellSplit(command) ==
    LET st == ShellScan(ShellStart, command, 1)
    IN  IF st.mode # "unquoted" THEN <<"syntax error">>
        ELSE IF st.inWord THEN Append(st.words, st.word)
        ELSE st.words

\* the state the emitter rests in while another component runs
EmitterIdle ==
    /\ dryRun = FALSE
    /\ nodes = <<>>
    /\ adjacent = <<>>
    /\ phaseInvocations = <<>>
    /\ pc = "returned"
    /\ writer = <<>>
    /\ seenDirectories = {}
    /\ index = 1
    /\ environments = {}
    /\ result = "none"
    /\ fileStatus = [path \in DiskPaths |-> "absent"]
    /\ ninjaFiles = [path \in NinjaPaths |-> <<>>]

EscapeInit ==
    /\ shellPc = "compose"
    /\ shellExecutable \in Executables
    /\ shellArguments \in ArgumentLists
    /\ shellExec = ""
    /\ shellArgv = <<>>

\* lines 474-481: the exec binding of the invoke edge
ComposeExec ==
    /\ shellPc = "compose"
    /\ shellExec' = ExecString(ShellEscape(shellExecutable), shellArguments)
    /\ shellPc' = "shell"
    /\ UNCHANGED <<emitterVars, linkVars, shellExecutable, shellArguments, shellArgv>>

\* the rule "cd $dir && $exec": the shell splits exec into words
RunShell ==
    /\ shellPc = "shell"
    /\ shellArgv' = ShellSplit(shellExec)
    /\ shellPc' = "ran"
    /\ UNCHANGED <<emitterVars, linkVars, shellExecutable, shellArguments, shellExec>>

InitEscape == EmitterIdle /\ EscapeInit /\ LinkIdle

NextEscape == ComposeExec \/ RunShell

SpecEscape == InitEscape /\ [][NextEscape]_vars

(***************************************************************************)
(* C8: the shell splits the exec string back into the executable followed  *)
(* by the arguments, same count and same contents, for every executable    *)
(* and every argument vector, the empty string included.                   *)
(***************************************************************************)
C8_ShellEscapeRoundTrip ==
    shellPc = "ran" => shellArgv = <<shellExecutable>> \o shellArguments

\* the round trip of argument vectors without an empty string
C8_NonEmptyRoundTrip ==
    (shellPc = "ran" /\ \A k \in 1..Len(shellArguments) : shellArguments[k] # "")
        => shellArgv = <<shellExecutable>> \o shellArguments

(***************************************************************************)
(* FrameworksResolver::Create.                                             *)
(***************************************************************************)
LdSpec == "com.apple.pbx.linkers.ld"

LibtoolSpec == "com.apple.pbx.linkers.libtool"

LipoSpec == "com.apple.xcode.linkers.lipo"

DsymutilSpec == "com.apple.tools.dsymutil"

ToolSpecs == {LdSpec, LibtoolSpec, LipoSpec, DsymutilSpec}

BinaryTypes == {"staticlib", "mh_object", "mh_execute"}

VariantNames == {"normal", "profile", "debug"}

ArchitectureNames == {"arm64", "x86_64", "i386"}

DebugInformationFormats == {"dwarf", "dwarf-with-dsym"}

\* the settings the variant environment resolves
ProductsDirectory == "/products"

ExecutableName == "App"

ExecutablePath == "App.app/App"

ExecutableVariantSuffix(variant) == IF variant = "normal" THEN "" ELSE "_" \o variant

ObjectFileDir(variant) == "/obj/Objects-" \o variant

DsymFile == "/products" \o "/" \o "App.app.dSYM"

variantIntermediatesName(variant) == ExecutableName \o ExecutableVariantSuffix(variant)

variantIntermediatesDirectory(variant) == ObjectFileDir(variant)

variantProductsOutput(variant) ==
    ProductsDirectory \o "/" \o (ExecutablePath \o ExecutableVariantSuffix(variant))

\* architectureIntermediatesOutput without the architecture's directory
architectureIntermediatesOutputOfVariant(variant, arch) ==
    variantIntermediatesDirectory(variant) \o "/" \o variantIntermediatesName(variant)

\* lines 106-107
architectureIntermediatesOutput(variant, arch) ==
    (variantIntermediatesDirectory(variant) \o "/" \o arch) \o "/" \o variantIntermediatesName(variant)

\* libutil: the characters after the last dot of the last path component
RECURSIVE LastDot(_, _)
LastDot(path, k) ==
    IF k = 0 \/ CharAt(path, k) = "/" THEN 0
    ELSE IF CharAt(path, k) = "." THEN k
    ELSE LastDot(path, k - 1)

GetFileExtension(path) ==
    LET k == LastDot(path, Len(path))
    IN  IF k = 0 THEN "" ELSE SubSeq(path, k + 1, Len(path))

\* outputs of the sources phase invocations of one variant and architecture
SourceInvocationOutputs(variant, arch) ==
    <<(ObjectFileDir(variant) \o "/" \o arch) \o "/a.o",
      (ObjectFileDir(variant) \o "/" \o arch) \o "/a.d",
      (ObjectFileDir(variant) \o "/" \o arch) \o "/b.o">>

\* lines 91-103: the outputs with extension o
sourceOutputs(variant, arch) ==
    SelectSeq(SourceInvocationOutputs(variant, arch), LAMBDA output : GetFileExtension(output) = "o")

\* lines 52-61: libtool for a static library, else ld
linker == IF binaryType = "staticlib" THEN LibtoolSpec ELSE LdSpec

linkerExecutable == IF binaryType = "staticlib" THEN "" ELSE "clang++"

\* the invocation a tool invocation context makes of the arguments of Create
ToolInvocation(tool, inputs, outputs, variant, arch, toolExecutable) ==
    [tool |-> tool, inputs |-> inputs, outputs |-> outputs, variant |-> variant,
     arch |-> arch, executable |-> toolExecutable]

\* createUniversalBinary with >= in place of >
createUniversalBinaryFromOne == Len(architectures) >= 1

\* line 76
createUniversalBinary == Len(architectures) > 1

\* line 124
createDebugSymbols(variant) ==
    /\ debugInformationFormat[variant] = "dwarf-with-dsym"
    /\ binaryType # "staticlib" /\ binaryType # "mh_object"

LinkInit ==
    /\ linkPc = "create"
    /\ specs \in SUBSET ToolSpecs
    /\ binaryType \in BinaryTypes
    /\ variants \in DistinctSeqs(VariantNames, MaxVariants)
    /\ architectures \in DistinctSeqs(ArchitectureNames, MaxArchs)
    /\ debugInformationFormat \in [Range(variants) -> DebugInformationFormats]
    /\ variantIndex = 1
    /\ architectureIndex = 1
    /\ universalBinaryInputs = <<>>
    /\ linkInvocations = <<>>
    /\ created = "none"

\* lines 41-48: a tool spec is missing, Create returns nullptr
ToolSpecMissing ==
    /\ linkPc = "create"
    /\ specs # ToolSpecs
    /\ created' = "null"
    /\ linkPc' = "returned"
    /\ UNCHANGED <<emitterVars, escapeVars, specs, binaryType, variants, architectures,
                   debugInformationFormat, variantIndex, architectureIndex,
                   universalBinaryInputs, linkInvocations>>

\* ToolSpecsFound that looks only for the linker of the binary type
ToolSpecsFoundForLinker ==
    /\ linkPc = "create"
    /\ linker \in specs
    /\ linkPc' = "variant"
    /\ UNCHANGED <<emitterVars, escapeVars, specs, binaryType, variants, architectures,
                   debugInformationFormat, variantIndex, architectureIndex,
                   universalBinaryInputs, linkInvocations, created>>

\* lines 41-64: the four tool specs, the linker of the binary type
ToolSpecsFound ==
    /\ linkPc = "create"
    /\ specs = ToolSpecs
    /\ linkPc' = "variant"
    /\ UNCHANGED <<emitterVars, escapeVars, specs, binaryType, variants, architectures,
                   debugInformationFormat, variantIndex, architectureIndex,
                   universalBinaryInputs, linkInvocations, created>>

\* lines 66-77: the next variant
BeginVariant ==
    /\ linkPc = "variant"
    /\ variantIndex <= Len(variants)
    /\ universalBinaryInputs' = <<>>
    /\ architectureIndex' = 1
    /\ linkPc' = "architecture"
    /\ UNCHANGED <<emitterVars, escapeVars, specs, binaryType, variants, architectures,
                   debugInformationFormat, variantIndex, linkInvocations, created>>

\* lines 79-117: the link invocation of the next architecture
LinkArchitecture ==
    /\ linkPc = "architecture"
    /\ architectureIndex <= Len(architectures)
    /\ LET variant == variants[variantIndex]
           arch == architectures[architectureIndex]
       IN  IF createUniversalBinary
           THEN /\ linkInvocations' =
                       Append(linkInvocations,
                              ToolInvocation(linker, sourceOutputs(variant, arch),
                                             <<architectureIntermediatesOutput(variant, arch)>>,
                                             variant, arch, linkerExecutable))
                /\ universalBinaryInputs' =
                       Append(universalBinaryInputs, architectureIntermediatesOutput(variant, arch))
           ELSE /\ linkInvocations' =
                       Append(linkInvocations,
                              ToolInvocation(linker, sourceOutputs(variant, arch),
                                             <<variantProductsOutput(variant)>>,
                                             variant, arch, linkerExecutable))
                /\ UNCHANGED universalBinaryInputs
    /\ architectureIndex' = architectureIndex + 1
    /\ UNCHANGED <<emitterVars, escapeVars, linkPc, specs, binaryType, variants, architectures,
                   debugInformationFormat, variantIndex, created>>

\* lines 119-122: after the architectures, the lipo invocation of a universal binary
UniversalBinary ==
    /\ linkPc = "architecture"
    /\ architectureIndex > Len(architectures)
    /\ linkInvocations' =
           IF createUniversalBinary
           THEN Append(linkInvocations,
                       ToolInvocation(LipoSpec, universalBinaryInputs,
                                      <<variantProductsOutput(variants[variantIndex])>>,
                                      variants[variantIndex], "", ""))
           ELSE linkInvocations
    /\ linkPc' = "dsym"
    /\ UNCHANGED <<emitterVars, escapeVars, specs, binaryType, variants, architectures,
                   debugInformationFormat, variantIndex, architectureIndex,
                   universalBinaryInputs, created>>

\* lines 124-129: the dsymutil invocation, then the next variant
DebugSymbols ==
    /\ linkPc = "dsym"
    /\ linkInvocations' =
           IF createDebugSymbols(variants[variantIndex])
           THEN Append(linkInvocations,
                       ToolInvocation(DsymutilSpec, <<variantProductsOutput(variants[variantIndex])>>,
                                      <<DsymFile>>, variants[variantIndex], "", ""))
           ELSE linkInvocations
    /\ variantIndex' = variantIndex + 1
    /\ linkPc' = "variant"
    /\ UNCHANGED <<emitterVars, escapeVars, specs, binaryType, variants, architectures,
                   debugInformationFormat, architectureIndex, universalBinaryInputs, created>>

\* line 131: the resolver with the invocations
ReturnResolver ==
    /\ linkPc = "variant"
    /\ variantIndex > Len(variants)
    /\ created' = "resolver"
    /\ linkPc' = "returned"
    /\ UNCHANGED <<emitterVars, escapeVars, specs, binaryType, variants, architectures,
                   debugInformationFormat, variantIndex, architectureIndex,
                   universalBinaryInputs, linkInvocations>>

InitLink == EmitterIdle /\ EscapeIdle /\ LinkInit

NextLink ==
    \/ ToolSpecMissing
    \/ ToolSpecsFound
    \/ BeginVariant
    \/ LinkArchitecture
    \/ UniversalBinary
    \/ DebugSymbols
    \/ ReturnResolver

SpecLink == InitLink /\ [][NextLink]_vars

(***************************************************************************)
(* C10: with all four tool specs found, the invocation list is, variant by *)
(* variant in VARIANTS order: one link invocation per architecture in      *)
(* ARCHS order, then one lipo invocation exactly when there is more than   *)
(* one architecture, then one dsymutil invocation exactly when the format  *)
(* is dwarf-with-dsym and the type is neither staticlib nor mh_object; and *)
(* nothing else.                                                           *)
(***************************************************************************)
\* whether the variant at position v is to get a dsymutil invocation
WantsDsym(v) ==
    /\ debugInformationFormat[variants[v]] = "dwarf-with-dsym"
    /\ binaryType \notin {"staticlib", "mh_object"}

\* number of invocations the claim gives the variant at position v
ExpectedCount(v) ==
    Len(architectures) + (IF Len(architectures) > 1 THEN 1 ELSE 0)
                       + (IF WantsDsym(v) THEN 1 ELSE 0)

RECURSIVE ExpectedBefore(_)
ExpectedBefore(v) == IF v = 1 THEN 0 ELSE ExpectedBefore(v - 1) + ExpectedCount(v - 1)

C10_InvocationOrder ==
    created = "resolver" =>
        /\ Len(linkInvocations) = ExpectedBefore(Len(variants) + 1)
        /\ \A v \in 1..Len(variants) :
              LET at == ExpectedBefore(v)
                  n == Len(architectures)
              IN  /\ \A a \in 1..n :
                        /\ linkInvocations[at + a].tool \in {LdSpec, LibtoolSpec}
                        /\ linkInvocations[at + a].arch = architectures[a]
                        /\ linkInvocations[at + a].variant = variants[v]
                  /\ n > 1 =>
                        /\ linkInvocations[at + n + 1].tool = LipoSpec
                        /\ linkInvocations[at + n + 1].variant = variants[v]
                  /\ WantsDsym(v) =>
                        /\ linkInvocations[at + ExpectedCount(v)].tool = DsymutilSpec
                        /\ linkInvocations[at + ExpectedCount(v)].variant = variants[v]

\* two variants of two architectures, one with debug symbols and one without
C10_Witness ==
    /\ created = "resolver"
    /\ Len(variants) = 2
    /\ Len(architectures) = 2
    /\ binaryType = "mh_execute"
    /\ debugInformationFormat[variants[1]] = "dwarf-with-dsym"
    /\ debugInformationFormat[variants[2]] = "dwarf"
    /\ Len(linkInvocations) = 7

(***************************************************************************)
(* C11: for each variant with at least one architecture: with more than    *)
(* one architecture every link invocation outputs                          *)
(* variantIntermediatesDirectory/arch/variantIntermediatesName and the lipo*)
(* invocation takes exactly those outputs, in architecture order, as its   *)
(* inputs and has variantProductsOutput as its single output; with one     *)
(* architecture the link invocation outputs variantProductsOutput. Either  *)
(* way variantProductsOutput is the output of exactly one invocation of    *)
(* the variant, and that one precedes the dsymutil invocation reading it.  *)
(***************************************************************************)
\* positions of the invocations of a variant that output path
VariantProducers(variant, path) ==
    {k \in 1..Len(linkInvocations) :
        linkInvocations[k].variant = variant /\ path \in Range(linkInvocations[k].outputs)}

\* positions of the dsymutil invocations of a variant
VariantDsymutils(variant) ==
    {k \in 1..Len(linkInvocations) :
        linkInvocations[k].variant = variant /\ linkInvocations[k].tool = DsymutilSpec}

C11_ProductHasOneProducer ==
    created = "resolver" =>
        \A v \in 1..Len(variants) :
            LET at == ExpectedBefore(v)
                n == Len(architectures)
                variant == variants[v]
                product == ProductsDirectory \o "/" \o ExecutablePath \o ExecutableVariantSuffix(variant)
                intermediate(a) ==
                    ObjectFileDir(variant) \o "/" \o architectures[a] \o "/" \o ExecutableName
                        \o ExecutableVariantSuffix(variant)
            IN  n >= 1 =>
                  /\ n > 1 =>
                        /\ \A a \in 1..n : linkInvocations[at + a].outputs = <<intermediate(a)>>
                        /\ linkInvocations[at + n + 1].inputs = [a \in 1..n |-> intermediate(a)]
                        /\ linkInvocations[at + n + 1].outputs = <<product>>
                  /\ n = 1 => linkInvocations[at + 1].outputs = <<product>>
                  /\ Cardinality(VariantProducers(variant, product)) = 1
                  /\ \A d \in VariantDsymutils(variant) :
                        /\ linkInvocations[d].inputs = <<product>>
                        /\ \A k \in VariantProducers(variant, product) : k < d

\* a universal binary of two architectures with debug symbols
C11_Witness ==
    /\ created = "resolver"
    /\ Len(architectures) = 2
    /\ \E v \in 1..Len(variants) :
          /\ VariantDsymutils(variants[v]) # {}
          /\ \E k \in VariantProducers(variants[v], variantProductsOutput(variants[v])) :
                linkInvocations[k].tool = LipoSpec

(***************************************************************************)
(* C12: when any of the four tool specs is missing the resolve fails as a  *)
(* whole, with no invocation at all, also when the missing tool would not  *)
(* have been used for this binary type, architecture count and format.     *)
(***************************************************************************)
C12_MissingToolFailsResolve ==
    specs # ToolSpecs =>
        /\ linkInvocations = <<>>
        /\ created # "resolver"
        /\ linkPc = "returned" => created = "null"

\* only lipo is missing, and one architecture of a static library needs no lipo
C12_Witness ==
    /\ created = "null"
    /\ specs = ToolSpecs \ {LipoSpec}
    /\ Len(architectures) = 1
    /\ Len(variants) >= 1
    /\ binaryType = "staticlib"

(***************************************************************************)
(* C13: an invocation whose executable does not resolve gets no invoke     *)
(* edge and no phony-input edge, the other invocations of the target are   *)
(* still emitted, and the graph stays well-formed: every real output and   *)
(* every fake phony output that an emitted edge, the finish edge included, *)
(* waits for is the output of an emitted edge.                             *)
(***************************************************************************)
\* an invocation with an executable that ResolveExecutable does not find
Unresolvable(invocation) ==
    /\ invocation.executable # ""
    /\ ResolveExecutable(invocation.executable, SdkExecutablePaths) = ""

\* targets whose file is complete on disk and loaded by the root writer
WrittenTargets ==
    {t \in Finished : fileStatus[TargetNinjaPath(t)] = "written"}

\* the phony inputs of the invocations of a target that get an invoke edge
EmittedPhonyInputs(t) ==
    Flatten([k \in 1..Len(phaseInvocations[t]) |->
                IF Emitted(phaseInvocations[t][k]) THEN phaseInvocations[t][k].phonyInputs
                ELSE <<>>])

\* outputs and fake phony outputs of the invocations that name an executable
InvocationPaths ==
    UNION {UNION {Range(InvocationEdgeOutputs(i)) :
                     i \in {j \in Range(phaseInvocations[t]) : j.executable # ""}} :
              t \in WrittenTargets}

GraphOutputs == UNION {Range(edge.outputs) : edge \in GraphEdges}

C13_SkippedInvocationKeepsGraphWellFormed ==
    (pc = "returned" /\ result = "true" /\ WrittenTargets = environments) =>
        /\ \A t \in WrittenTargets :
              /\ \A i \in Range(phaseInvocations[t]) :
                    /\ Unresolvable(i) =>
                          \A k \in InvokeEdges(t) :
                              TargetFile(t)[k].outputs # InvocationEdgeOutputs(i)
                    /\ Emitted(i) =>
                          \E k \in InvokeEdges(t) :
                              TargetFile(t)[k].outputs = InvocationEdgeOutputs(i)
              /\ Cardinality(InvokeEdges(t)) =
                    Cardinality({k \in 1..Len(phaseInvocations[t]) : Emitted(phaseInvocations[t][k])})
              /\ Cardinality({k \in 1..Len(TargetFile(t)) : TargetFile(t)[k].rule = "phony"}) =
                    Len(EmittedPhonyInputs(t))
        /\ \A edge \in GraphEdges :
              (EdgeInputs(edge) \cap InvocationPaths) \subseteq GraphOutputs

(***************************************************************************)
(* C14: every invoke edge lists the directory of each of its real outputs  *)
(* exactly once among its order-only dependencies, and that directory is   *)
(* the output of a mkdir edge that is in the root writer by the time the   *)
(* target's file is written.                                               *)
(***************************************************************************)
\* the real outputs among the outputs of an invoke edge of target t
RealOutputsOf(t, edge) ==
    Range(edge.outputs) \cap Range(InvocationOutputs(phaseInvocations[t]))

Occurrences(sequence, value) ==
    Cardinality({j \in 1..Len(sequence) : sequence[j] = value})

C14_InvokeEdgeWaitsForOutputDirectories ==
    \A t \in environments : \A k \in InvokeEdges(t) : \A output \in RealOutputsOf(t, TargetFile(t)[k]) :
        /\ Occurrences(TargetFile(t)[k].orderDependencies, GetDirectoryName(output)) = 1
        /\ MkdirEdges(GetDirectoryName(output)) # {}
        /\ \A m \in MkdirEdges(GetDirectoryName(output)) : writer[m].inputs = <<>>

\* an invoke edge with two outputs in one directory and a third elsewhere, where
\* the mkdir edge of the first directory was added for another target
C14_Witness ==
    \E t \in environments : \E k \in InvokeEdges(t) :
        /\ Cardinality(RealOutputsOf(t, TargetFile(t)[k])) = 3
        /\ Cardinality({GetDirectoryName(output) : output \in RealOutputsOf(t, TargetFile(t)[k])}) = 2
        /\ \E output \in RealOutputsOf(t, TargetFile(t)[k]) :
              \E m \in MkdirEdges(GetDirectoryName(output)) :
                  writer[m].orderDependencies # <<TargetNinjaBegin(t)>>

(***************************************************************************)
(* C15: with an acyclic target graph and acyclic invocations the emitted   *)
(* graph, root and target files together, has no dependency cycle, in      *)
(* whichever order the targets are walked and also when targets share an   *)
(* output directory. Stated for the graphs in which every path has one     *)
(* producer.                                                               *)
(***************************************************************************)
\* the outputs of the graph that transitively wait for themselves
CyclicPaths == {path \in GraphOutputs : path \in TransitiveInputs(DependsDirectly({path}))}

\* no path is the output of two edges, so that a cycle is not one through two
\* edges that happen to output the same fake path
SingleProducers == \A path \in GraphOutputs : ProducerCount(path) <= 1

\* what an invocation reads
Consumed(invocation) ==
    (Range(invocation.inputs) \cup Range(invocation.inputDependencies))
        \cup (Range(invocation.orderDependencies) \cup Range(invocation.phonyInputs))

\* the invocations' input/output relation does not run against the target graph:
\* a target that reads an output of another target is not one that target depends on
InputsFollowTargetGraph ==
    \A t, u \in Targets :
        (/\ t # u
         /\ \E i \in Range(phaseInvocations[t]), j \in Range(phaseInvocations[u]) :
                Consumed(i) \cap Range(j.outputs) # {})
            => ~ReachableIn(adjacent, u, t, Cardinality(Targets))

C15_NoDependencyCycle ==
    (/\ pc = "returned" /\ result = "true"
     /\ WrittenTargets = environments
     /\ SingleProducers
     /\ InputsFollowTargetGraph) =>
        CyclicPaths = {}

(***************************************************************************)
(* C16: each target moves only forward through Pending, Begun,             *)
(* InvocationsEmitted, Finished. In the root writer its begin edge comes   *)
(* before its mkdir edges, these before its subninja line, and that before *)
(* its finish edge; WriteNinja has written the target's file before the    *)
(* subninja line is added. A target whose environment does not resolve     *)
(* stays at Begun with its begin edge only, the walk goes on to every      *)
(* remaining target and the root file is still written.                    *)
(***************************************************************************)
\* positions of the mkdir edges added to the root writer while t was walked
OwnMkdirEdges(t) ==
    {k \in 1..Len(writer) :
        /\ writer[k].type = "build"
        /\ writer[k].rule = NinjaRuleName
        /\ writer[k].orderDependencies = <<TargetNinjaBegin(t)>>}

SubninjaLines(t) == SubninjaLinesIn(writer, TargetNinjaPath(t))

\* the state of a target: 0 Pending, 1 Begun, 2 InvocationsEmitted, 3 Finished
TargetState(t) ==
    IF PhonyEdges(TargetNinjaFinish(t)) # {} THEN 3
    ELSE IF fileStatus[TargetNinjaPath(t)] # "absent" THEN 2
    ELSE IF PhonyEdges(TargetNinjaBegin(t)) # {} THEN 1
    ELSE 0

\* targets the walk has left without a target environment
UnresolvedTargets ==
    {t \in Begun : t \notin environments /\ ~(AtTarget(t) /\ pc = "environment")}

TargetOrderInWriter(t) ==
    /\ Cardinality(PhonyEdges(TargetNinjaBegin(t))) <= 1
    /\ Cardinality(SubninjaLines(t)) <= 1
    /\ Cardinality(PhonyEdges(TargetNinjaFinish(t))) <= 1
    /\ \A b \in PhonyEdges(TargetNinjaBegin(t)) :
          /\ \A m \in OwnMkdirEdges(t) : b < m
          /\ \A l \in SubninjaLines(t) : b < l
    /\ \A l \in SubninjaLines(t) :
          /\ \A m \in OwnMkdirEdges(t) : m < l
          /\ fileStatus[TargetNinjaPath(t)] # "absent"
    /\ \A f \in PhonyEdges(TargetNinjaFinish(t)) : \E l \in SubninjaLines(t) : l < f
    /\ (OwnMkdirEdges(t) # {} \/ TargetState(t) >= 2) => PhonyEdges(TargetNinjaBegin(t)) # {}

UnresolvedStaysBegun(t) ==
    /\ Cardinality(PhonyEdges(TargetNinjaBegin(t))) = 1
    /\ OwnMkdirEdges(t) = {}
    /\ fileStatus[TargetNinjaPath(t)] = "absent"
    /\ SubninjaLines(t) = {}
    /\ PhonyEdges(TargetNinjaFinish(t)) = {}

C16_TargetsMoveForward ==
    /\ [](\A t \in Targets : TargetOrderInWriter(t))
    /\ [](\A t \in UnresolvedTargets : UnresolvedStaysBegun(t))
    /\ []((pc = "returned" /\ result = "true") =>
             /\ \A t \in Targets : TargetState(t) >= 1
             /\ fileStatus[RootNinjaPath] # "absent")
    /\ [][\A t \in Targets : TargetState(t)' >= TargetState(t)]_vars
    /\ [][(pc = "environment" /\ environments' = environments) =>
             (pc' = "walk" /\ index' = index + 1 /\ result' = result)]_vars

\* the first target walked has no environment; the second is finished with a
\* mkdir edge of its own, and the root file is written
C16_Witness ==
    /\ pc = "returned"
    /\ result = "true"
    /\ fileStatus[RootNinjaPath] = "written"
    /\ nodes[1] \in UnresolvedTargets
    /\ TargetState(nodes[2]) = 3
    /\ OwnMkdirEdges(nodes[2]) # {}

=============================================================================
